---- MODULE Spec2Model ----
(***************************************************************************)
(* Model of src/app.py (Podcast Summarizer): the text sanitizer            *)
(* clean_text, the PDF block methods, the line classification loop of      *)
(* create_pdf and the Streamlit script flow.                                *)
(*                                                                         *)
(* A Python str is a sequence of one-character strings.  Characters with   *)
(* no ASCII spelling are written as named tokens:                          *)
(*   "LDQ" U+201C   "RDQ" U+201D   "LSQ" U+2018   "RSQ" U+2019             *)
(*   "EMDASH" U+2014   "ENDASH" U+2013   "ELLIPSIS" U+2026                 *)
(*   "DQUOTE" U+0022 (the straight double quote)                           *)
(* Page layout (fonts, cell geometry, page breaks and the running header)  *)
(* is not part of the model: a block is the text handed to cell/multi_cell.*)
(***************************************************************************)
EXTENDS Integers, Sequences, FiniteSets, TLC

VARIABLES
    content,              \* create_pdf: summary.get('summary', '')
    lines,                \* create_pdf: content.split('\n')
    i,                    \* create_pdf: number of lines the for loop has consumed
    bullet_items,         \* create_pdf local
    special_mentions,     \* create_pdf local
    in_bullet_section,    \* create_pdf local
    in_special_mentions,  \* create_pdf local
    pdf,                  \* the PDF object: sequence of blocks laid out so far
    file,                 \* what pdf.output(filename) wrote
    pc,                   \* position inside create_pdf
    kinds,                \* branch of the if/elif chain taken for each consumed line
    run,                  \* number of create_pdf calls started
    prev_file,            \* the file the previous create_pdf call wrote
    ui,                   \* the Streamlit script run: its locals and position
    clean_in,             \* argument of a direct clean_text / PDF method call
    clean_out,            \* value clean_text returned
    clean_pc              \* which direct call has been made

vars == <<content, lines, i, bullet_items, special_mentions, in_bullet_section,
          in_special_mentions, pdf, file, pc, kinds, run, prev_file, ui,
          clean_in, clean_out, clean_pc>>

pdfVars == <<content, lines, i, bullet_items, special_mentions, in_bullet_section,
             in_special_mentions, pdf, file, pc, kinds, run, prev_file>>

cleanVars == <<clean_in, clean_out, clean_pc>>

-----------------------------------------------------------------------------
(* Bounds of the model *)

MaxLines == 3      \* lines in the text given to create_pdf
MaxRuns == 2       \* create_pdf calls in one behaviour
MaxTextLen == 3    \* length of the text given directly to clean_text

-----------------------------------------------------------------------------
(* Python str helpers *)

\* Python's None
None == <<"<None>">>

\* bool(v) for a str-or-None value
Truthy(v) == v # None /\ v # <<>>

\* characters str.strip() removes
Whitespace == {" ", "\t", "\r", "\n"}

\* s[n:]
From(s, n) == SubSeq(s, n + 1, Len(s))

\* s[:-n]
DropLast(s, n) == SubSeq(s, 1, Len(s) - n)

\* s.startswith(p)
StartsWith(s, p) == Len(s) >= Len(p) /\ SubSeq(s, 1, Len(p)) = p

\* s.endswith(p)
EndsWith(s, p) == Len(s) >= Len(p) /\ SubSeq(s, Len(s) - Len(p) + 1, Len(s)) = p

RECURSIVE lstrip(_)
lstrip(s) == IF s # <<>> /\ Head(s) \in Whitespace THEN lstrip(Tail(s)) ELSE s

RECURSIVE rstrip(_)
rstrip(s) == IF s # <<>> /\ s[Len(s)] \in Whitespace THEN rstrip(DropLast(s, 1)) ELSE s

\* s.strip()
strip(s) == rstrip(lstrip(s))

\* s.replace(old, new) for a non-empty old: leftmost non-overlapping occurrences
RECURSIVE replace(_, _, _)
replace(s, old, new) ==
    IF s = <<>> THEN <<>>
    ELSE IF StartsWith(s, old) THEN new \o replace(From(s, Len(old)), old, new)
    ELSE <<Head(s)>> \o replace(Tail(s), old, new)

\* s.split(sep) for a one-character sep
RECURSIVE split(_, _)
split(s, sep) ==
    IF \A k \in 1..Len(s) : s[k] # sep THEN <<s>>
    ELSE LET p == CHOOSE k \in 1..Len(s) : s[k] = sep /\ \A j \in 1..(k - 1) : s[j] # sep
         IN  <<SubSeq(s, 1, p - 1)>> \o split(From(s, p), sep)

\* str(n) for n >= 0
DigitChars == <<"0", "1", "2", "3", "4", "5", "6", "7", "8", "9">>

RECURSIVE str(_)
str(n) == IF n < 10 THEN <<DigitChars[n + 1]>>
          ELSE str(n \div 10) \o <<DigitChars[(n % 10) + 1]>>

-----------------------------------------------------------------------------
(* clean_text *)

\* the replacements dict, in insertion order
replacements == <<
    << <<"LDQ">>,      <<"DQUOTE">> >>,
    << <<"RDQ">>,      <<"DQUOTE">> >>,
    << <<"LSQ">>,      <<"'">> >>,
    << <<"RSQ">>,      <<"'">> >>,
    << <<"EMDASH">>,   <<"-">> >>,
    << <<"ENDASH">>,   <<"-">> >>,
    << <<"ELLIPSIS">>, <<".", ".", ".">> >>,
    << <<"*", "*">>,   <<>> >> >>

\* the for loop over replacements.items(), from entry k on
RECURSIVE ApplyReplacements(_, _)
ApplyReplacements(text, k) ==
    IF k > Len(replacements) THEN text
    ELSE ApplyReplacements(replace(text, replacements[k][1], replacements[k][2]), k + 1)

\* variant: the loop result is returned without .strip()
clean_text_nostrip(text) == ApplyReplacements(text, 1)

clean_text(text) == strip(ApplyReplacements(text, 1))

-----------------------------------------------------------------------------
(* class PDF: each method appends one block to the document.  A block      *)
(* records the method, the argument texts it was called with and the text  *)
(* of every cell it laid out.                                               *)

Block(type, args, cells) == [type |-> type, args |-> args, cells |-> cells]

chapter_title(doc, title) ==
    Append(doc, Block("title", <<title>>, <<clean_text(title)>>))

chapter_body(doc, body) ==
    Append(doc, Block("body", <<body>>, <<clean_text(body)>>))

add_bold_left(doc, txt) ==
    Append(doc, Block("bold", <<txt>>, <<clean_text(txt)>>))

\* f"{idx}. {clean_text(item)}" for enumerate(items, start=1)
NumberedCells(items) ==
    [k \in 1..Len(items) |-> str(k) \o <<".", " ">> \o clean_text(items[k])]

add_numbered_bullets(doc, items) ==
    Append(doc, Block("bullets", items, NumberedCells(items)))

add_special_mentions(doc, items) ==
    Append(doc, Block("special", items, NumberedCells(items)))

-----------------------------------------------------------------------------
(* create_pdf: the patterns of the if/elif chain *)

\* re.match(r'^##', line)
MatchHeader(line) == StartsWith(line, <<"#", "#">>)

\* re.match(r'^\*\*.*\*\*$', line); '.' matches no newline
MatchBold(line) ==
    /\ Len(line) >= 4
    /\ StartsWith(line, <<"*", "*">>)
    /\ EndsWith(line, <<"*", "*">>)
    /\ \A k \in 3..(Len(line) - 2) : line[k] # "\n"

\* re.match(r'^\* \*\*', line)
MatchSpecial(line) == StartsWith(line, <<"*", " ", "*", "*">>)

\* re.match(r'^\* [^\*]', line)
MatchBullet(line) ==
    /\ Len(line) >= 3
    /\ line[1] = "*"
    /\ line[2] = " "
    /\ line[3] # "*"

\* the branch of the chain a stripped line takes
Classify(line) ==
    IF MatchHeader(line) THEN "title"
    ELSE IF MatchBold(line) THEN "bold"
    ELSE IF MatchSpecial(line) THEN "special"
    ELSE IF MatchBullet(line) THEN "bullet"
    ELSE "body"

\* title = line[2:].strip()
TitleText(line) == strip(From(line, 2))

\* bold_text = line[2:-2].strip()
BoldText(line) == strip(SubSeq(line, 3, Len(line) - 2))

\* special_mention_text = line[4:].strip()
SpecialText(line) == strip(From(line, 4))

\* bullet_text = line[1:].strip(), less a trailing '**'
BulletText(line) ==
    LET t == strip(From(line, 1))
    IN  IF EndsWith(t, <<"*", "*">>) THEN strip(DropLast(t, 2)) ELSE t

-----------------------------------------------------------------------------
(* create_pdf: the loop body, on a record of the function's locals *)

Locals == [pdf |-> pdf,
           bullet_items |-> bullet_items,
           special_mentions |-> special_mentions,
           in_bullet_section |-> in_bullet_section,
           in_special_mentions |-> in_special_mentions]

\* variant: only the bullet accumulation is closed
CloseOpenLists_bulletsonly(st) ==
    IF st.in_bullet_section
    THEN [st EXCEPT !.pdf = add_numbered_bullets(st.pdf, st.bullet_items),
                    !.bullet_items = <<>>,
                    !.in_bullet_section = FALSE]
    ELSE st

\* variant: the lists are emitted and emptied, the flags are left set
CloseOpenLists_keepflags(st) ==
    LET s1 == IF st.in_bullet_section
              THEN [st EXCEPT !.pdf = add_numbered_bullets(st.pdf, st.bullet_items),
                              !.bullet_items = <<>>]
              ELSE st
    IN  IF s1.in_special_mentions
        THEN [s1 EXCEPT !.pdf = add_special_mentions(s1.pdf, s1.special_mentions),
                        !.special_mentions = <<>>]
        ELSE s1

\* the two "if in_bullet_section / if in_special_mentions" blocks that open the
\* header, bold and paragraph branches
CloseOpenLists(st) ==
    LET s1 == IF st.in_bullet_section
              THEN [st EXCEPT !.pdf = add_numbered_bullets(st.pdf, st.bullet_items),
                              !.bullet_items = <<>>,
                              !.in_bullet_section = FALSE]
              ELSE st
    IN  IF s1.in_special_mentions
        THEN [s1 EXCEPT !.pdf = add_special_mentions(s1.pdf, s1.special_mentions),
                        !.special_mentions = <<>>,
                        !.in_special_mentions = FALSE]
        ELSE s1

\* one iteration of "for line in lines" on the raw line
LoopBody(st, raw) ==
    LET line == strip(raw)
        kind == Classify(line)
    IN  CASE kind = "title" ->
               LET s == CloseOpenLists(st)
               IN  [s EXCEPT !.pdf = chapter_title(s.pdf, TitleText(line))]
          [] kind = "bold" ->
               LET s == CloseOpenLists(st)
               IN  [s EXCEPT !.pdf = add_bold_left(s.pdf, BoldText(line))]
          [] kind = "special" ->
               [st EXCEPT !.in_special_mentions = TRUE,
                          !.special_mentions = Append(st.special_mentions, SpecialText(line))]
          [] kind = "bullet" ->
               [st EXCEPT !.in_bullet_section = TRUE,
                          !.bullet_items = Append(st.bullet_items, BulletText(line))]
          [] OTHER ->
               LET s == CloseOpenLists(st)
               IN  [s EXCEPT !.pdf = chapter_body(s.pdf, line)]

\* variant: the remaining bullet items are not emitted
EndFlush_nobullets(st) ==
    IF st.special_mentions # <<>>
    THEN [st EXCEPT !.pdf = add_special_mentions(st.pdf, st.special_mentions)]
    ELSE st

\* "if bullet_items: ... if special_mentions: ..." after the loop
EndFlush(st) ==
    LET s1 == IF st.bullet_items # <<>>
              THEN [st EXCEPT !.pdf = add_numbered_bullets(st.pdf, st.bullet_items)]
              ELSE st
    IN  IF s1.special_mentions # <<>>
        THEN [s1 EXCEPT !.pdf = add_special_mentions(s1.pdf, s1.special_mentions)]
        ELSE s1

\* 'Generated By Neural Bee'
ClosingTitleText ==
    <<"G", "e", "n", "e", "r", "a", "t", "e", "d", " ", "B", "y", " ",
      "N", "e", "u", "r", "a", "l", " ", "B", "e", "e">>

-----------------------------------------------------------------------------
(* create_pdf: the steps of one call *)

SetLocals(s) ==
    /\ pdf' = s.pdf
    /\ bullet_items' = s.bullet_items
    /\ special_mentions' = s.special_mentions
    /\ in_bullet_section' = s.in_bullet_section
    /\ in_special_mentions' = s.in_special_mentions

\* variant: the accumulations of the previous call survive into the next one
CreatePdfEntry_keep ==
    /\ pc = "call"
    /\ pdf' = <<>>
    /\ lines' = split(content, "\n")
    /\ in_bullet_section' = FALSE
    /\ in_special_mentions' = FALSE
    /\ i' = 0
    /\ kinds' = <<>>
    /\ file' = None
    /\ pc' = "loop"
    /\ UNCHANGED <<content, bullet_items, special_mentions, run, prev_file, ui>>
    /\ UNCHANGED cleanVars

\* PDF(), add_page(), the split and the four initialisations
CreatePdfEntry ==
    /\ pc = "call"
    /\ pdf' = <<>>
    /\ lines' = split(content, "\n")
    /\ bullet_items' = <<>>
    /\ special_mentions' = <<>>
    /\ in_bullet_section' = FALSE
    /\ in_special_mentions' = FALSE
    /\ i' = 0
    /\ kinds' = <<>>
    /\ file' = None
    /\ pc' = "loop"
    /\ UNCHANGED <<content, run, prev_file, ui>>
    /\ UNCHANGED cleanVars

\* one loop iteration
ProcessLine ==
    /\ pc = "loop"
    /\ i < Len(lines)
    /\ SetLocals(LoopBody(Locals, lines[i + 1]))
    /\ kinds' = Append(kinds, Classify(strip(lines[i + 1])))
    /\ i' = i + 1
    /\ UNCHANGED <<content, lines, file, pc, run, prev_file, ui>>
    /\ UNCHANGED cleanVars

\* the loop is exhausted: the two trailing flushes
FlushRemaining ==
    /\ pc = "loop"
    /\ i = Len(lines)
    /\ SetLocals(EndFlush(Locals))
    /\ pc' = "title"
    /\ UNCHANGED <<content, lines, i, file, kinds, run, prev_file, ui>>
    /\ UNCHANGED cleanVars

\* variant: the closing title is put in front of the document
ClosingTitle_first ==
    /\ pc = "title"
    /\ pdf' = chapter_title(<<>>, ClosingTitleText) \o pdf
    /\ pc' = "output"
    /\ UNCHANGED <<content, lines, i, bullet_items, special_mentions, in_bullet_section,
                   in_special_mentions, file, kinds, run, prev_file, ui>>
    /\ UNCHANGED cleanVars

\* pdf.chapter_title('Generated By Neural Bee')
ClosingTitle ==
    /\ pc = "title"
    /\ pdf' = chapter_title(pdf, ClosingTitleText)
    /\ pc' = "output"
    /\ UNCHANGED <<content, lines, i, bullet_items, special_mentions, in_bullet_section,
                   in_special_mentions, file, kinds, run, prev_file, ui>>
    /\ UNCHANGED cleanVars

\* pdf.output(filename)
Output ==
    /\ pc = "output"
    /\ file' = pdf
    /\ pc' = "done"
    /\ UNCHANGED <<content, lines, i, bullet_items, special_mentions, in_bullet_section,
                   in_special_mentions, pdf, kinds, run, prev_file, ui>>
    /\ UNCHANGED cleanVars

\* create_pdf is called once more with the same summary
CallAgain ==
    /\ pc = "done"
    /\ run < MaxRuns
    /\ run' = run + 1
    /\ prev_file' = file
    /\ pc' = "call"
    /\ UNCHANGED <<content, lines, i, bullet_items, special_mentions, in_bullet_section,
                   in_special_mentions, pdf, file, kinds, ui>>
    /\ UNCHANGED cleanVars

-----------------------------------------------------------------------------
(* Inputs of create_pdf *)

\* lines a summary is made of
LineSet == {
    <<>>,                                         \* ''
    <<"a">>,                                      \* 'a'
    <<"#", "#", " ", "T">>,                       \* '## T'
    <<"*", "*", "b", "*", "*">>,                  \* '**b**'
    <<"*", " ", "*", "*", "q", "*", "*">>,        \* '* **q**'
    <<"*", " ", "*", "*">>,                       \* '* **'
    <<"*", " ", "x">>,                            \* '* x'
    <<" ", "*", " ", "y", "*", "*", " ">>,        \* ' * y** '
    <<"*", " ", "*", "z">>,                       \* '* *z'
    <<"LDQ", "c", "RDQ", "EMDASH">> }             \* curly-quoted c, em dash

RECURSIVE Join(_)
Join(ls) == IF Len(ls) = 1 THEN ls[1] ELSE ls[1] \o <<"\n">> \o Join(Tail(ls))

InputTexts == { Join(ls) : ls \in UNION { [1..n -> LineSet] : n \in 1..MaxLines } }

IdleUI == [pc |-> "off"]

IdleClean ==
    /\ clean_in = <<>>
    /\ clean_out = None
    /\ clean_pc = "off"

Init ==
    /\ content \in InputTexts
    /\ lines = <<>>
    /\ i = 0
    /\ bullet_items = <<>>
    /\ special_mentions = <<>>
    /\ in_bullet_section = FALSE
    /\ in_special_mentions = FALSE
    /\ pdf = <<>>
    /\ file = None
    /\ pc = "call"
    /\ kinds = <<>>
    /\ run = 1
    /\ prev_file = None
    /\ ui = IdleUI
    /\ IdleClean

Next ==
    \/ CreatePdfEntry
    \/ ProcessLine
    \/ FlushRemaining
    \/ ClosingTitle
    \/ Output
    \/ CallAgain

Spec == Init /\ [][Next]_vars

-----------------------------------------------------------------------------
(* Properties of create_pdf *)

\* the call has passed its initialisations
InCall == pc \in {"loop", "title", "output", "done"}

\* the loop and the trailing flushes are over
AfterFlush == pc \in {"title", "output", "done"}

ListTypes == {"bullets", "special"}

\* the items of all blocks of one type, in document order
RECURSIVE ConcatArgs(_, _)
ConcatArgs(doc, type) ==
    IF doc = <<>> THEN <<>>
    ELSE (IF Head(doc).type = type THEN Head(doc).args ELSE <<>>)
         \o ConcatArgs(Tail(doc), type)

\* the item texts of the first n lines that took branch kind, in input order
RECURSIVE ItemsOfLines(_, _)
ItemsOfLines(n, kind) ==
    IF n = 0 THEN <<>>
    ELSE ItemsOfLines(n - 1, kind)
         \o (IF kinds[n] # kind THEN <<>>
             ELSE IF kind = "bullet" THEN <<BulletText(strip(lines[n]))>>
             ELSE <<SpecialText(strip(lines[n]))>>)

\* number of the first n lines whose branch lays out a block of its own
RECURSIVE OwnBlockLines(_)
OwnBlockLines(n) ==
    IF n = 0 THEN 0
    ELSE OwnBlockLines(n - 1) + (IF kinds[n] \in {"title", "bold", "body"} THEN 1 ELSE 0)

CountBlocks(doc, types) == Cardinality({k \in 1..Len(doc) : doc[k].type \in types})

\* C1: every bullet line and every special-mention line is emitted in exactly one
\* list block before pdf.output: while the loop runs, the items already emitted
\* followed by the open accumulation are the item lines consumed so far, in order;
\* once the trailing flushes are done the emitted items alone are all item lines
\* of the input, none dropped and none twice, and that is what is written.
C1_ItemsEmittedOnce ==
    /\ pc = "loop" =>
          /\ ConcatArgs(pdf, "bullets") \o bullet_items = ItemsOfLines(i, "bullet")
          /\ ConcatArgs(pdf, "special") \o special_mentions = ItemsOfLines(i, "special")
    /\ AfterFlush =>
          /\ ConcatArgs(pdf, "bullets") = ItemsOfLines(Len(lines), "bullet")
          /\ ConcatArgs(pdf, "special") = ItemsOfLines(Len(lines), "special")
    /\ pc = "done" =>
          /\ ConcatArgs(file, "bullets") = ItemsOfLines(Len(lines), "bullet")
          /\ ConcatArgs(file, "special") = ItemsOfLines(Len(lines), "special")

\* Both accumulations were still open at the last line and were written.
C1_Witness ==
    /\ pc = "done"
    /\ kinds[Len(kinds)] \in {"bullet", "special"}
    /\ Len(ConcatArgs(file, "bullets")) >= 1
    /\ Len(ConcatArgs(file, "special")) >= 1
    /\ Len(ConcatArgs(file, "bullets")) + Len(ConcatArgs(file, "special")) = Len(lines)

\* C2: every stripped line that begins with '* ' and not with '* **' takes the
\* bullet branch (it is appended to bullet_items) and never the paragraph branch.
C2_StarSpaceLinesAreBullets ==
    \A j \in 1..Len(kinds) :
        LET l == strip(lines[j])
        IN  (StartsWith(l, <<"*", " ">>) /\ ~StartsWith(l, <<"*", " ", "*", "*">>))
                => kinds[j] = "bullet"

\* C3: when a line takes the title, bold or paragraph branch, the open
\* accumulations are laid out as list blocks (bullets, then special mentions)
\* before the block of that line, nothing else is laid out, and afterwards both
\* flags are false and both lists are empty.
C3_CloseBeforeBlock ==
    [][ (pc = "loop" /\ i' = i + 1 /\ kinds'[i'] \in {"title", "bold", "body"}) =>
          LET nb == IF in_bullet_section THEN 1 ELSE 0
              ns == IF in_special_mentions THEN 1 ELSE 0
              n  == Len(pdf)
          IN  /\ Len(pdf') = n + nb + ns + 1
              /\ SubSeq(pdf', 1, n) = pdf
              /\ in_bullet_section =>
                    /\ pdf'[n + 1].type = "bullets"
                    /\ pdf'[n + 1].args = bullet_items
              /\ in_special_mentions =>
                    /\ pdf'[n + nb + 1].type = "special"
                    /\ pdf'[n + nb + 1].args = special_mentions
              /\ pdf'[n + nb + ns + 1].type = kinds'[i']
              /\ ~in_bullet_section'
              /\ ~in_special_mentions'
              /\ bullet_items' = <<>>
              /\ special_mentions' = <<>> ]_vars

\* A paragraph, title or bold line has just closed both accumulations.
C3_Witness ==
    /\ pc = "loop"
    /\ i >= 3
    /\ kinds[i] \in {"title", "bold", "body"}
    /\ Len(pdf) >= 3
    /\ pdf[Len(pdf) - 2].type = "bullets"
    /\ pdf[Len(pdf) - 1].type = "special"
    /\ ~in_bullet_section /\ ~in_special_mentions

\* maximal runs of consecutive lines a..b that all took branch kind
IsRun(a, b, kind) ==
    /\ a <= b
    /\ \A j \in a..b : kinds[j] = kind
    /\ a = 1 \/ kinds[a - 1] # kind
    /\ b = Len(kinds) \/ kinds[b + 1] # kind

RunItems(a, b, kind) ==
    [k \in 1..(b - a + 1) |->
        IF kind = "bullet" THEN BulletText(strip(lines[a + k - 1]))
        ELSE SpecialText(strip(lines[a + k - 1]))]

\* C4: the k-th cell of every list block starts with "k. ", and every run of
\* consecutive bullet lines (special-mention lines) is one block of its own,
\* numbered 1..n in input order.
C4_RunsAreBlocks ==
    /\ InCall =>
          \A b \in 1..Len(pdf) : pdf[b].type \in ListTypes =>
              \A k \in 1..Len(pdf[b].cells) :
                  StartsWith(pdf[b].cells[k], <<DigitChars[k + 1], ".", " ">>)
    /\ pc = "done" =>
          \A kind \in {"bullet", "special"} :
              \A a \in 1..Len(kinds) : \A b \in a..Len(kinds) :
                  IsRun(a, b, kind) =>
                      \E n \in 1..Len(file) :
                          /\ file[n].type = (IF kind = "bullet" THEN "bullets" ELSE "special")
                          /\ file[n].args = RunItems(a, b, kind)

\* C6: a second call of create_pdf on the same text writes the same blocks
\* (types, texts, order and numbering) as the first.
C6_SecondRunSameBlocks == (run >= 2 /\ pc = "done") => file = prev_file

\* The second call has finished on a text whose first call ended with an
\* accumulation still open.
C6_Witness ==
    /\ run = 2
    /\ pc = "done"
    /\ bullet_items # <<>>
    /\ special_mentions # <<>>
    /\ Len(file) >= 3

ClosingBlock == Block("title", <<ClosingTitleText>>, <<ClosingTitleText>>)

\* C7: in the written document the closing title is the last block, and every
\* block derived from the input (one per title, bold and paragraph line, and all
\* list items, the ones flushed at end of input included) comes before it.
C7_ClosingTitleLast ==
    pc = "done" =>
        LET n == Len(file)
            body == SubSeq(file, 1, n - 1)
        IN  /\ n >= 2
            /\ file[n] = ClosingBlock
            /\ CountBlocks(body, {"title", "bold", "body"}) = OwnBlockLines(Len(lines))
            /\ ConcatArgs(body, "bullets") = ItemsOfLines(Len(lines), "bullet")
            /\ ConcatArgs(body, "special") = ItemsOfLines(Len(lines), "special")

\* The document ends with both end-of-input list blocks and then the title.
C7_Witness ==
    /\ pc = "done"
    /\ Len(file) >= 3
    /\ file[Len(file) - 2].type = "bullets"
    /\ file[Len(file) - 1].type = "special"
    /\ kinds[Len(kinds)] \in {"bullet", "special"}

\* the machine of the design notes: one open accumulation at most, flushed on
\* every state exit; lines are classified as create_pdf classifies them
SMFlush(state, acc, doc) ==
    IF state = "InBullets" THEN add_numbered_bullets(doc, acc)
    ELSE IF state = "InSpecialMentions" THEN add_special_mentions(doc, acc)
    ELSE doc

RECURSIVE SMRun(_, _, _, _)
SMRun(ls, state, acc, doc) ==
    IF ls = <<>> THEN chapter_title(SMFlush(state, acc, doc), ClosingTitleText)
    ELSE
        LET line == strip(Head(ls))
            kind == Classify(line)
        IN  CASE kind = "title" ->
                   SMRun(Tail(ls), "None", <<>>,
                         chapter_title(SMFlush(state, acc, doc), TitleText(line)))
              [] kind = "bold" ->
                   SMRun(Tail(ls), "None", <<>>,
                         add_bold_left(SMFlush(state, acc, doc), BoldText(line)))
              [] kind = "special" ->
                   IF state = "InSpecialMentions"
                   THEN SMRun(Tail(ls), state, Append(acc, SpecialText(line)), doc)
                   ELSE SMRun(Tail(ls), "InSpecialMentions", <<SpecialText(line)>>,
                              SMFlush(state, acc, doc))
              [] kind = "bullet" ->
                   IF state = "InBullets"
                   THEN SMRun(Tail(ls), state, Append(acc, BulletText(line)), doc)
                   ELSE SMRun(Tail(ls), "InBullets", <<BulletText(line)>>,
                              SMFlush(state, acc, doc))
              [] OTHER ->
                   SMRun(Tail(ls), "None", <<>>,
                         chapter_body(SMFlush(state, acc, doc), line))

\* C9: create_pdf writes what the three-state machine writes, the two
\* accumulations are never open together, and list blocks come out in the order
\* of their lines in the input.
C9_ThreeStateMachine ==
    /\ InCall => ~(in_bullet_section /\ in_special_mentions)
    /\ pc = "done" => file = SMRun(lines, "None", <<>>, <<>>)

\* C10: after each line each flag is set exactly when its list is non-empty; no
\* list block has zero items; and the trailing flushes, which test the lists, lay
\* out exactly the accumulations whose flags are set.
C10_FlagsMatchLists ==
    /\ [](InCall =>
            /\ in_bullet_section <=> (bullet_items # <<>>)
            /\ in_special_mentions <=> (special_mentions # <<>>)
            /\ \A b \in 1..Len(pdf) : pdf[b].type \in ListTypes => Len(pdf[b].args) >= 1)
    /\ [][ (pc = "loop" /\ pc' = "title") =>
             LET nb == IF in_bullet_section THEN 1 ELSE 0
                 ns == IF in_special_mentions THEN 1 ELSE 0
                 n  == Len(pdf)
             IN  /\ Len(pdf') = n + nb + ns
                 /\ SubSeq(pdf', 1, n) = pdf
                 /\ in_bullet_section =>
                       pdf'[n + 1].type = "bullets" /\ pdf'[n + 1].args = bullet_items
                 /\ in_special_mentions =>
                       pdf'[n + nb + 1].type = "special"
                       /\ pdf'[n + nb + 1].args = special_mentions ]_vars

\* The trailing flushes have laid out one open accumulation and not the other.
C10_Witness ==
    /\ pc = "title"
    /\ in_bullet_section
    /\ ~in_special_mentions
    /\ pdf[Len(pdf)].type = "bullets"
    /\ CountBlocks(pdf, {"special"}) >= 1

-----------------------------------------------------------------------------
(* Direct calls of clean_text and of the PDF methods on one text *)

CleanAlphabet ==
    {" ", "*", "a", "LDQ", "RDQ", "LSQ", "RSQ", "EMDASH", "ENDASH", "ELLIPSIS",
     "DQUOTE", "'", "-", "."}

CleanInputs == UNION { [1..n -> CleanAlphabet] : n \in 0..MaxTextLen }

IdlePdf ==
    /\ content = <<>>
    /\ lines = <<>>
    /\ i = 0
    /\ bullet_items = <<>>
    /\ special_mentions = <<>>
    /\ in_bullet_section = FALSE
    /\ in_special_mentions = FALSE
    /\ pdf = <<>>
    /\ file = None
    /\ pc = "idle"
    /\ kinds = <<>>
    /\ run = 1
    /\ prev_file = None

InitClean ==
    /\ IdlePdf
    /\ ui = IdleUI
    /\ clean_in \in CleanInputs
    /\ clean_out = None
    /\ clean_pc = "ready"

CleanFrame ==
    UNCHANGED <<content, lines, i, bullet_items, special_mentions, in_bullet_section,
                in_special_mentions, file, pc, kinds, run, prev_file, ui, clean_in>>

CallCleanText ==
    /\ clean_pc = "ready"
    /\ clean_out' = clean_text(clean_in)
    /\ clean_pc' = "clean_text"
    /\ pdf' = pdf
    /\ CleanFrame

CallChapterTitle ==
    /\ clean_pc = "ready"
    /\ pdf' = chapter_title(pdf, clean_in)
    /\ clean_pc' = "chapter_title"
    /\ clean_out' = clean_out
    /\ CleanFrame

CallChapterBody ==
    /\ clean_pc = "ready"
    /\ pdf' = chapter_body(pdf, clean_in)
    /\ clean_pc' = "chapter_body"
    /\ clean_out' = clean_out
    /\ CleanFrame

CallAddBoldLeft ==
    /\ clean_pc = "ready"
    /\ pdf' = add_bold_left(pdf, clean_in)
    /\ clean_pc' = "add_bold_left"
    /\ clean_out' = clean_out
    /\ CleanFrame

CallAddNumberedBullets ==
    /\ clean_pc = "ready"
    /\ pdf' = add_numbered_bullets(pdf, <<clean_in, clean_in>>)
    /\ clean_pc' = "add_numbered_bullets"
    /\ clean_out' = clean_out
    /\ CleanFrame

CallAddSpecialMentions ==
    /\ clean_pc = "ready"
    /\ pdf' = add_special_mentions(pdf, <<clean_in, clean_in>>)
    /\ clean_pc' = "add_special_mentions"
    /\ clean_out' = clean_out
    /\ CleanFrame

NextClean ==
    \/ CallCleanText
    \/ CallChapterTitle
    \/ CallChapterBody
    \/ CallAddBoldLeft
    \/ CallAddNumberedBullets
    \/ CallAddSpecialMentions

SpecClean == InitClean /\ [][NextClean]_vars

Typographic == {"LDQ", "RDQ", "LSQ", "RSQ", "EMDASH", "ENDASH", "ELLIPSIS"}

Count(t, chars) == Cardinality({k \in 1..Len(t) : t[k] \in chars})

IsClean(t) ==
    /\ \A k \in 1..Len(t) : t[k] \notin Typographic
    /\ \A k \in 1..(Len(t) - 1) : ~(t[k] = "*" /\ t[k + 1] = "*")
    /\ t # <<>> => (t[1] \notin Whitespace /\ t[Len(t)] \notin Whitespace)

\* the text of a cell: all of it, or what follows the "k. " of a list cell
CellText(block, k) ==
    IF block.type \in ListTypes THEN From(block.cells[k], 3) ELSE block.cells[k]

\* C5: what clean_text returns, and so the text of every title, paragraph, bold
\* and list-item cell, holds no curly quote, no em or en dash, no ellipsis
\* character and no '**', and neither starts nor ends with whitespace; every curly
\* quote has become a straight quote, every dash a '-', every ellipsis character
\* three periods, and the other characters are kept.
C5_CleanText ==
    /\ clean_pc = "clean_text" =>
          /\ IsClean(clean_out)
          /\ Count(clean_out, {"DQUOTE"}) = Count(clean_in, {"LDQ", "RDQ", "DQUOTE"})
          /\ Count(clean_out, {"'"}) = Count(clean_in, {"LSQ", "RSQ", "'"})
          /\ Count(clean_out, {"-"}) = Count(clean_in, {"EMDASH", "ENDASH", "-"})
          /\ Count(clean_out, {"."}) = Count(clean_in, {"."}) + 3 * Count(clean_in, {"ELLIPSIS"})
          /\ Count(clean_out, {"a"}) = Count(clean_in, {"a"})
    /\ \A b \in 1..Len(pdf) : \A k \in 1..Len(pdf[b].cells) :
          IsClean(CellText(pdf[b], k))

\* clean_text has turned a text with leading whitespace, a curly quote and an
\* ellipsis character into a straight quote and three periods.
C5_Witness ==
    /\ clean_pc = "clean_text"
    /\ clean_in = <<" ", "LDQ", "ELLIPSIS">>
    /\ clean_out = <<"DQUOTE", ".", ".", ".">>

-----------------------------------------------------------------------------
(* The Streamlit script: one run from st.text_input('Enter YouTube URL:') on.  *)
(* An external call either returns a value of its service or raises; widget   *)
(* values are inputs of the run.                                               *)

\* re.search(r"v=([^&]+)", yt_url): the leftmost match and its group 1
VideoIdMatches(url) ==
    {p \in 1..(Len(url) - 2) : url[p] = "v" /\ url[p + 1] = "=" /\ url[p + 2] # "&"}

VideoIdGroup(url) ==
    LET p == CHOOSE q \in VideoIdMatches(url) : \A r \in VideoIdMatches(url) : q <= r
        e == CHOOSE q \in (p + 2)..Len(url) :
                 /\ \A r \in (p + 2)..q : url[r] # "&"
                 /\ q = Len(url) \/ url[q + 1] = "&"
    IN  SubSeq(url, p + 2, e)

\* extract_video_id: the value returned and whether st.error was called
extract_video_id(url) ==
    IF VideoIdMatches(url) # {}
    THEN [value |-> VideoIdGroup(url), error |-> FALSE]
    ELSE [value |-> None, error |-> TRUE]

\* get_transcript: ok is "the API call and the formatter returned srt"
get_transcript(ok, srt) ==
    IF ok THEN [value |-> srt, error |-> FALSE]
    ELSE [value |-> None, error |-> TRUE]

\* translate_text: on an exception the untranslated text is returned
translate_text(text, ok, translated) ==
    IF ok THEN [value |-> translated, error |-> FALSE]
    ELSE [value |-> text, error |-> TRUE]

\* the empty dict
EmptyDict == <<>>

\* bool(d) for a dict
DictTruthy(d) == DOMAIN d # {}

\* variant: the except branch returns a dict with an empty summary
generate_summary_dictonerror(ok, response_text) ==
    IF ok
    THEN [value |-> [summary |-> response_text, quick_lessons |-> <<>>, dos |-> <<>>,
                     donts |-> <<>>, key_pointers |-> <<>>, special_mentions |-> <<>>],
          error |-> FALSE]
    ELSE [value |-> [summary |-> <<>>], error |-> TRUE]

\* generate_summary: ok is "generate_content returned response_text"
generate_summary(ok, response_text) ==
    IF ok
    THEN [value |-> [summary |-> response_text, quick_lessons |-> <<>>, dos |-> <<>>,
                     donts |-> <<>>, key_pointers |-> <<>>, special_mentions |-> <<>>],
          error |-> FALSE]
    ELSE [value |-> EmptyDict, error |-> TRUE]

\* inputs of a script run
Urls == {
    <<>>,                                  \* ''
    <<"x">>,                               \* 'x'
    <<"v", "=", "&">>,                     \* 'v=&'
    <<"?", "v", "=", "a", "b", "&", "t">>  \* '?v=ab&t'
    }

Transcripts == { <<>>, <<"h", "i">> }

Translations == { <<"h", "o">> }

Langs == {"en", "es", "fr", "de"}

SummaryTexts == {
    <<"#", "#", " ", "T", "\n", "*", " ", "x">>,                \* '## T\n* x'
    <<"*", " ", "*", "*", "q", "*", "*", "\n", "a">>            \* '* **q**\na'
    }

Emails == { <<>>, <<"u", "@", "x">> }

InitUI ==
    /\ IdlePdf
    /\ IdleClean
    /\ \E u \in Urls :
          ui = [pc |-> "start",
                yt_url |-> u,
                video_id |-> None,
                transcript_text |-> None,
                target_lang |-> "",
                translated_text |-> None,
                prompt_transcript |-> None,
                summary |-> EmptyDict,
                email_address |-> <<>>,
                steps |-> <<>>,      \* the calls made, in order
                failed |-> {},       \* the calls that failed
                messages |-> <<>>]   \* st.error / st.success messages, in order

UIFrame ==
    /\ UNCHANGED <<lines, i, bullet_items, special_mentions, in_bullet_section,
                   in_special_mentions, pdf, file, kinds, run, prev_file>>
    /\ UNCHANGED cleanVars

\* if yt_url: video_id = extract_video_id(yt_url)
UIExtractVideoId ==
    /\ ui.pc = "start"
    /\ IF ui.yt_url = <<>>
       THEN ui' = [ui EXCEPT !.pc = "end"]
       ELSE LET r == extract_video_id(ui.yt_url)
            IN  ui' = [ui EXCEPT
                    !.video_id = r.value,
                    !.steps = Append(@, "extract_video_id"),
                    !.failed = IF r.error THEN @ \cup {"extract_video_id"} ELSE @,
                    !.messages = IF r.error THEN Append(@, "error: invalid url") ELSE @,
                    !.pc = IF Truthy(r.value) THEN "get_transcript" ELSE "end"]
    /\ UNCHANGED <<content, pc>>
    /\ UIFrame

\* transcript_text = get_transcript(video_id)
UIGetTranscript ==
    /\ ui.pc = "get_transcript"
    /\ \E ok \in BOOLEAN, srt \in Transcripts :
          LET r == get_transcript(ok, srt)
          IN  ui' = [ui EXCEPT
                  !.transcript_text = r.value,
                  !.steps = Append(@, "get_transcript"),
                  !.failed = IF r.error THEN @ \cup {"get_transcript"} ELSE @,
                  !.messages = IF r.error THEN Append(@, "error: transcript") ELSE @,
                  !.pc = IF Truthy(r.value) THEN "translate" ELSE "end"]
    /\ UNCHANGED <<content, pc>>
    /\ UIFrame

\* target_lang = st.selectbox(...); translated_text = translate_text(...)
UITranslate ==
    /\ ui.pc = "translate"
    /\ \E lang \in Langs, ok \in BOOLEAN, translated \in Translations :
          LET r == translate_text(ui.transcript_text, ok, translated)
          IN  ui' = [ui EXCEPT
                  !.target_lang = lang,
                  !.translated_text = r.value,
                  !.steps = Append(@, "translate_text"),
                  !.failed = IF r.error THEN @ \cup {"translate_text"} ELSE @,
                  !.messages = IF r.error THEN Append(@, "error: translation") ELSE @,
                  !.pc = "generate"]
    /\ UNCHANGED <<content, pc>>
    /\ UIFrame

\* if st.button('Generate Summary'): summary = generate_summary(...);
\* if summary: create_pdf(summary, pdf_filename) is entered
UIGenerateSummary ==
    /\ ui.pc = "generate"
    /\ \E pressed \in BOOLEAN, ok \in BOOLEAN, response_text \in SummaryTexts :
          IF ~pressed
          THEN /\ ui' = [ui EXCEPT !.pc = "end"]
               /\ UNCHANGED <<content, pc>>
          ELSE LET r == generate_summary(ok, response_text)
                   called == DictTruthy(r.value)
               IN  /\ ui' = [ui EXCEPT
                          !.prompt_transcript = ui.translated_text,
                          !.summary = r.value,
                          !.steps = IF called
                                    THEN @ \o <<"generate_summary", "create_pdf">>
                                    ELSE Append(@, "generate_summary"),
                          !.failed = IF r.error THEN @ \cup {"generate_summary"} ELSE @,
                          !.messages = IF r.error THEN Append(@, "error: summary") ELSE @,
                          !.pc = IF called THEN "create_pdf" ELSE "end"]
                   /\ IF called
                      THEN /\ content' = (IF "summary" \in DOMAIN r.value
                                          THEN r.value.summary ELSE <<>>)
                           /\ pc' = "call"
                      ELSE UNCHANGED <<content, pc>>
    /\ UIFrame

\* create_pdf has returned: st.success, the address box, the Send Email button
\* and send_email
UISendEmail ==
    /\ ui.pc = "create_pdf"
    /\ pc = "done"
    /\ \E addr \in Emails, pressed \in BOOLEAN, ok \in BOOLEAN :
          LET send == addr # <<>> /\ pressed
          IN  ui' = [ui EXCEPT
                  !.email_address = addr,
                  !.steps = IF send THEN Append(@, "send_email") ELSE @,
                  !.failed = IF send /\ ~ok THEN @ \cup {"send_email"} ELSE @,
                  !.messages = @ \o <<"success: pdf created">>
                                 \o (IF ~send THEN <<>>
                                     ELSE IF ok THEN <<"success: email sent">>
                                     ELSE <<"error: email">>),
                  !.pc = "end"]
    /\ UNCHANGED <<content, pc>>
    /\ UIFrame

NextUI ==
    \/ UIExtractVideoId
    \/ UIGetTranscript
    \/ UITranslate
    \/ UIGenerateSummary
    \/ CreatePdfEntry
    \/ ProcessLine
    \/ FlushRemaining
    \/ ClosingTitle
    \/ Output
    \/ UISendEmail

SpecUI == InitUI /\ [][NextUI]_vars

Ran(step) == \E k \in 1..Len(ui.steps) : ui.steps[k] = step

Surfaced(msg) == \E k \in 1..Len(ui.messages) : ui.messages[k] = msg

\* every failed call has put its message on the page
FailuresSurfaced ==
    /\ "extract_video_id" \in ui.failed => Surfaced("error: invalid url")
    /\ "get_transcript" \in ui.failed => Surfaced("error: transcript")
    /\ "translate_text" \in ui.failed => Surfaced("error: translation")
    /\ "generate_summary" \in ui.failed => Surfaced("error: summary")
    /\ "send_email" \in ui.failed => Surfaced("error: email")

\* the steps downstream of video-id extraction, transcript fetch and summary
\* generation are skipped when that step fails
DownstreamSkipped ==
    /\ "extract_video_id" \in ui.failed =>
          /\ ~Ran("get_transcript") /\ ~Ran("translate_text")
          /\ ~Ran("generate_summary") /\ ~Ran("create_pdf") /\ ~Ran("send_email")
    /\ "get_transcript" \in ui.failed =>
          /\ ~Ran("translate_text") /\ ~Ran("generate_summary")
          /\ ~Ran("create_pdf") /\ ~Ran("send_email")
    /\ "generate_summary" \in ui.failed =>
          /\ ~Ran("create_pdf") /\ ~Ran("send_email")
          /\ pc = "idle"

\* C8 as stated: a failed step surfaces a message and everything downstream of
\* it is skipped; in particular no summary is generated from the value of a
\* failed translation.
C8_FailureSkipsDownstream ==
    /\ FailuresSurfaced
    /\ DownstreamSkipped
    /\ "translate_text" \in ui.failed => ~Ran("generate_summary")

\* C8 amended: as stated for every step but translation; a failed translation
\* surfaces its message and hands the untranslated transcript on, and a summary
\* generated after it is generated from that untranslated transcript.
C8_FailureSkipsOrFallsBack ==
    /\ FailuresSurfaced
    /\ DownstreamSkipped
    /\ "translate_text" \in ui.failed =>
          /\ ui.translated_text = ui.transcript_text
          /\ Ran("generate_summary") => ui.prompt_transcript = ui.transcript_text

\* Summary generation has failed after a failed translation and the run is over.
C8_Witness ==
    /\ ui.pc = "end"
    /\ ui.failed = {"translate_text", "generate_summary"}
    /\ ui.prompt_transcript = ui.transcript_text
    /\ Surfaced("error: summary")

====
